---- MODULE Spec2Model ----
(***************************************************************************)
(* Model of the beetle_bits crate: the Bit logic primitive, the 4-bit      *)
(* Nibble built from it, the 3-bit float f3 with its conversions to and    *)
(* from the native f32, and the 1-bit unsigned integer u1.                 *)
(*                                                                         *)
(* Every operation of the crate is a pure function of its arguments, so    *)
(* the state of the model is the last call made: which operation (op),     *)
(* with which arguments (args), and what it returned (ret).  There is one  *)
(* action per operation; it draws the arguments from the operation's       *)
(* whole input domain and records the value the code computes.             *)
(***************************************************************************)
EXTENDS Integers, Sequences, FiniteSets, TLC

VARIABLES op, args, ret

vars == <<op, args, ret>>

(***************************************************************************)
(* bit.rs: enum Bit { Zero = 0, One = 1 }                                  *)
(***************************************************************************)
Zero == 0

One == 1

Bit == {Zero, One}

\* impl Not for Bit
Bit_not(self) ==
    IF self = Zero THEN One ELSE Zero

\* impl BitAnd for Bit: (One, One) => One, _ => Zero
Bit_bitand(self, rhs) ==
    IF self = One /\ rhs = One THEN One ELSE Zero

\* Bit::nand: !(self & other)
Bit_nand(self, other) ==
    Bit_not(Bit_bitand(self, other))

\* BitOr with the two negations left out
Bit_bitor_mut(self, rhs) ==
    Bit_nand(self, rhs)

\* impl BitOr for Bit: (!self).nand(!rhs)
Bit_bitor(self, rhs) ==
    Bit_nand(Bit_not(self), Bit_not(rhs))

\* impl BitXor for Bit: (self | rhs) & self.nand(rhs)
Bit_bitxor(self, rhs) ==
    Bit_bitand(Bit_bitor(self, rhs), Bit_nand(self, rhs))

\* Bit::add with the two carries joined by & instead of |
Bit_add_mut(self, other, carry_in) ==
    LET a == Bit_bitxor(self, other)
        b == Bit_bitand(self, other)
        c == Bit_bitand(a, carry_in)
        sum == Bit_bitxor(a, carry_in)
        carry_out == Bit_bitand(c, b)
    IN  <<sum, carry_out>>

\* Bit::add: full adder, returns (sum, carry_out)
Bit_add(self, other, carry_in) ==
    LET a == Bit_bitxor(self, other)
        b == Bit_bitand(self, other)
        c == Bit_bitand(a, carry_in)
        sum == Bit_bitxor(a, carry_in)
        carry_out == Bit_bitor(c, b)
    IN  <<sum, carry_out>>

(***************************************************************************)
(* nibble.rs: struct Nibble([Bit; 4]).  The array index i of the source is *)
(* position i + 1 of the tuple.                                            *)
(***************************************************************************)
Nibble == [1..4 -> Bit]

\* the conversion with index 0 weighted 8 instead of -8
i8_from_Nibble_mut(value) ==
    LET a == IF value[1] = One THEN 8 ELSE 0
        b == IF value[2] = One THEN 4 ELSE 0
        c == IF value[3] = One THEN 2 ELSE 0
        d == IF value[4] = One THEN 1 ELSE 0
    IN  a + b + c + d

\* impl From<Nibble> for i8
i8_from_Nibble(value) ==
    LET a == IF value[1] = One THEN -8 ELSE 0
        b == IF value[2] = One THEN 4 ELSE 0
        c == IF value[3] = One THEN 2 ELSE 0
        d == IF value[4] = One THEN 1 ELSE 0
    IN  a + b + c + d

\* impl Not for Nibble: self.0.map(Not::not)
Nibble_not(self) ==
    [i \in 1..4 |-> Bit_not(self[i])]

\* Nibble::add: the chain starts at index 0 with carry_in and ends at
\* index 3, whose carry is returned
Nibble_add(self, other, carry_in) ==
    LET r1 == Bit_add(self[1], other[1], carry_in)
        r2 == Bit_add(self[2], other[2], r1[2])
        r3 == Bit_add(self[3], other[3], r2[2])
        r4 == Bit_add(self[4], other[4], r3[2])
        total_sum == <<r1[1], r2[1], r3[1], r4[1]>>
    IN  <<total_sum, r4[2]>>

\* impl Sub for Nibble: self.add(!rhs, Bit::One)
Nibble_sub(self, rhs) ==
    Nibble_add(self, Nibble_not(rhs), One)

(***************************************************************************)
(* The native f32, as far as the crate looks at it: a NaN, an infinity or  *)
(* a finite value, each with a sign bit.  A finite magnitude is held in    *)
(* tenths (mag = 10 is 1.0, mag = 3 stands for 0.3), up to MaxMag tenths.  *)
(* The crate only ever compares a float with 0, 1, -1 and the infinities.  *)
(***************************************************************************)
MaxMag == 50

F32Nan(neg) == [k |-> "nan", neg |-> neg, mag |-> 0]

F32Inf(neg) == [k |-> "inf", neg |-> neg, mag |-> 0]

F32Fin(neg, mag) == [k |-> "fin", neg |-> neg, mag |-> mag]

F32 ==
    {F32Nan(n) : n \in BOOLEAN} \cup {F32Inf(n) : n \in BOOLEAN}
        \cup {F32Fin(n, m) : n \in BOOLEAN, m \in 0..MaxMag}

\* the signed magnitude of a finite value, in tenths
F32Signed(x) == IF x.neg THEN 0 - x.mag ELSE x.mag

\* -1 for -inf, 0 for a finite value, 1 for +inf
F32Tier(x) == IF x.k = "inf" THEN (IF x.neg THEN -1 ELSE 1) ELSE 0

\* f32 ==: false on a NaN, and the two zeros are equal
f32_eq(x, y) ==
    /\ x.k # "nan"
    /\ y.k # "nan"
    /\ F32Tier(x) = F32Tier(y)
    /\ (x.k = "fin" => F32Signed(x) = F32Signed(y))

\* f32 <: false on a NaN
f32_lt(x, y) ==
    /\ x.k # "nan"
    /\ y.k # "nan"
    /\ \/ F32Tier(x) < F32Tier(y)
       \/ /\ x.k = "fin"
          /\ y.k = "fin"
          /\ F32Signed(x) < F32Signed(y)

\* f32 >
f32_gt(x, y) == f32_lt(y, x)

\* f32::is_sign_positive: the sign bit, also of a zero and of a NaN
is_sign_positive(x) == ~x.neg

(***************************************************************************)
(* f3.rs: struct f3 { sign, exponent, mantissa } and its eight constants.  *)
(***************************************************************************)
f3_new(sign, exponent, mantissa) ==
    [sign |-> sign, exponent |-> exponent, mantissa |-> mantissa]

f3 == [sign : Bit, exponent : Bit, mantissa : Bit]

f3_ZERO == f3_new(Zero, Zero, Zero)

f3_ONE == f3_new(Zero, Zero, One)

f3_INFINITY == f3_new(Zero, One, Zero)

f3_NAN == f3_new(Zero, One, One)

f3_NEG_ZERO == f3_new(One, Zero, Zero)

f3_NEG_ONE == f3_new(One, Zero, One)

f3_NEG_INFINITY == f3_new(One, One, Zero)

f3_NEG_NAN == f3_new(One, One, One)

\* the conversion without the final sign test
f3_from_f32_mut(value) ==
    IF f32_eq(value, F32Inf(FALSE)) THEN f3_INFINITY
    ELSE IF f32_eq(value, F32Inf(TRUE)) THEN f3_NEG_INFINITY
    ELSE IF f32_eq(value, F32Fin(FALSE, 0)) THEN f3_ZERO
    ELSE IF f32_eq(value, F32Fin(TRUE, 0)) THEN f3_NEG_ZERO
    ELSE IF f32_eq(value, F32Fin(FALSE, 10)) THEN f3_ONE
    ELSE IF f32_eq(value, F32Fin(TRUE, 10)) THEN f3_NEG_ONE
    ELSE IF f32_gt(value, F32Fin(FALSE, 10)) THEN f3_INFINITY
    ELSE IF f32_lt(value, F32Fin(TRUE, 10)) THEN f3_NEG_INFINITY
    ELSE f3_NAN

\* impl From<f32> for f3: the first test that holds decides
f3_from_f32(value) ==
    IF f32_eq(value, F32Inf(FALSE)) THEN f3_INFINITY
    ELSE IF f32_eq(value, F32Inf(TRUE)) THEN f3_NEG_INFINITY
    ELSE IF f32_eq(value, F32Fin(FALSE, 0)) THEN f3_ZERO
    ELSE IF f32_eq(value, F32Fin(TRUE, 0)) THEN f3_NEG_ZERO
    ELSE IF f32_eq(value, F32Fin(FALSE, 10)) THEN f3_ONE
    ELSE IF f32_eq(value, F32Fin(TRUE, 10)) THEN f3_NEG_ONE
    ELSE IF f32_gt(value, F32Fin(FALSE, 10)) THEN f3_INFINITY
    ELSE IF f32_lt(value, F32Fin(TRUE, 10)) THEN f3_NEG_INFINITY
    ELSE IF is_sign_positive(value) THEN f3_NAN
    ELSE f3_NEG_NAN

\* impl Neg for f3: only the sign is flipped
f3_neg(self) ==
    f3_new(Bit_not(self.sign), self.exponent, self.mantissa)

(***************************************************************************)
(* f3 equality and what is built on it.  PartialEq for f3 is written by    *)
(* hand and compares arrays of f3 values; comparing two arrays compares    *)
(* their elements with PartialEq for f3 again.  A call therefore either    *)
(* returns a value or, when the nesting of f3::eq reaches StackLimit       *)
(* frames, ends the process with a stack overflow.  depth is the number of *)
(* f3::eq frames already on the stack.                                     *)
(***************************************************************************)
StackLimit == 6

Ok(v) == [st |-> "ok", val |-> v]

StackOverflow == [st |-> "overflow"]

\* f3.rs: the six arrays [C; 2] that eq searches
f3_eq_table ==
    << <<f3_ONE, f3_ONE>>, <<f3_NEG_ONE, f3_NEG_ONE>>,
       <<f3_ZERO, f3_ZERO>>, <<f3_NEG_ZERO, f3_NEG_ZERO>>,
       <<f3_INFINITY, f3_INFINITY>>, <<f3_NEG_INFINITY, f3_NEG_INFINITY>> >>

RECURSIVE f3_eq(_, _, _), array_eq(_, _, _, _), slice_contains(_, _, _, _)

\* [f3; 2] == [f3; 2]: from element idx on, each pair compared by f3::eq,
\* stopping at the first pair that differs
array_eq(x, y, idx, depth) ==
    IF idx > Len(x) THEN Ok(TRUE)
    ELSE LET r == f3_eq(x[idx], y[idx], depth)
         IN  IF r.st # "ok" THEN r
             ELSE IF ~r.val THEN Ok(FALSE)
             ELSE array_eq(x, y, idx + 1, depth)

\* <[[f3; 2]]>::contains(needle): from entry i on, the first entry equal to
\* the needle decides
slice_contains(table, needle, i, depth) ==
    IF i > Len(table) THEN Ok(FALSE)
    ELSE LET r == array_eq(table[i], needle, 1, depth)
         IN  IF r.st # "ok" THEN r
             ELSE IF r.val THEN Ok(TRUE)
             ELSE slice_contains(table, needle, i + 1, depth)

\* f3.rs, impl PartialEq for f3: table.contains(&[*self, *other])
f3_eq(self, other, depth) ==
    IF depth >= StackLimit THEN StackOverflow
    ELSE slice_contains(f3_eq_table, <<self, other>>, 1, depth + 1)

\* f3.rs, Zero::is_zero: self == &Self::ZERO
f3_is_zero(self, depth) ==
    f3_eq(self, f3_ZERO, depth)

\* f3.rs, One::one
f3_one == f3_new(Zero, Zero, One)

RECURSIVE lib_f3_eq(_, _, _), lib_array_eq(_, _, _, _)

\* lib.rs: [&f3; 2] == [&f3; 2], each pair of references compared by the
\* f3::eq of lib.rs
lib_array_eq(x, y, idx, depth) ==
    IF idx > Len(x) THEN Ok(TRUE)
    ELSE LET r == lib_f3_eq(x[idx], y[idx], depth)
         IN  IF r.st # "ok" THEN r
             ELSE IF ~r.val THEN Ok(FALSE)
             ELSE lib_array_eq(x, y, idx + 1, depth)

\* lib.rs, Zero::is_zero: self == &Self::ZERO
lib_f3_is_zero(self, depth) ==
    lib_f3_eq(self, f3_ZERO, depth)

\* lib.rs: self.is_zero() && other.is_zero()
lib_both_zero(self, other, depth) ==
    LET r == lib_f3_is_zero(self, depth)
    IN  IF r.st # "ok" THEN r
        ELSE IF ~r.val THEN Ok(FALSE)
        ELSE lib_f3_is_zero(other, depth)

\* lib.rs: the tests of eq after the NaN test, in source order
lib_f3_eq_rest(self, other, depth) ==
    LET pair == <<self, other>>
        zeros == lib_both_zero(self, other, depth)
        ones == lib_array_eq(pair, <<f3_one, f3_one>>, 1, depth)
        negs == lib_array_eq(pair, <<f3_neg(f3_one), f3_neg(f3_one)>>, 1, depth)
        ninf == lib_array_eq(pair, <<f3_NEG_INFINITY, f3_NEG_INFINITY>>, 1, depth)
        pinf == lib_array_eq(pair, <<f3_INFINITY, f3_INFINITY>>, 1, depth)
    IN  IF zeros.st # "ok" THEN zeros
        ELSE IF zeros.val THEN Ok(TRUE)
        ELSE IF ones.st # "ok" THEN ones
        ELSE IF ones.val THEN Ok(TRUE)
        ELSE IF negs.st # "ok" THEN negs
        ELSE IF negs.val THEN Ok(TRUE)
        ELSE IF ninf.st # "ok" THEN ninf
        ELSE IF ninf.val THEN Ok(TRUE)
        ELSE pinf

\* lib.rs, impl PartialEq for f3
lib_f3_eq(self, other, depth) ==
    IF depth >= StackLimit THEN StackOverflow
    ELSE LET nans == lib_array_eq(<<self, other>>, <<f3_NAN, f3_NAN>>, 1,
                                  depth + 1)
         IN  IF nans.st # "ok" THEN nans
             ELSE IF nans.val THEN Ok(FALSE)
             ELSE lib_f3_eq_rest(self, other, depth + 1)

\* f3.rs: the tests of From<f3> for f32 in source order, each constant
\* with the float it yields; NEG_NAN yields -f32::NAN, anything else NAN
f32_from_f3_table ==
    << <<f3_ZERO, F32Fin(FALSE, 0)>>, <<f3_NEG_ZERO, F32Fin(TRUE, 0)>>,
       <<f3_ONE, F32Fin(FALSE, 10)>>, <<f3_NEG_ONE, F32Fin(TRUE, 10)>>,
       <<f3_INFINITY, F32Inf(FALSE)>>, <<f3_NEG_INFINITY, F32Inf(TRUE)>>,
       <<f3_NEG_NAN, F32Nan(TRUE)>> >>

RECURSIVE f32_from_f3_chain(_, _, _)

\* the if-else chain from its i-th test on: val == constant, by f3::eq
f32_from_f3_chain(val, i, depth) ==
    IF i > Len(f32_from_f3_table) THEN Ok(F32Nan(FALSE))
    ELSE LET r == f3_eq(val, f32_from_f3_table[i][1], depth)
         IN  IF r.st # "ok" THEN r
             ELSE IF r.val THEN Ok(f32_from_f3_table[i][2])
             ELSE f32_from_f3_chain(val, i + 1, depth)

\* impl From<f3> for f32
f32_from_f3(val, depth) ==
    f32_from_f3_chain(val, 1, depth)

(***************************************************************************)
(* Native f32 arithmetic on the floats an f3 converts to (magnitude 0, 1   *)
(* or infinite, or a NaN).  The sign of a NaN that an operation returns is *)
(* not specified by the language: nanNeg is the sign the build produces.   *)
(***************************************************************************)
F32FromSigned(v, negZero) ==
    IF v = 0 THEN F32Fin(negZero, 0)
    ELSE IF v < 0 THEN F32Fin(TRUE, 0 - v)
    ELSE F32Fin(FALSE, v)

f32_neg(x) == [x EXCEPT !.neg = ~x.neg]

f32_add(x, y, nanNeg) ==
    IF x.k = "nan" \/ y.k = "nan" THEN F32Nan(nanNeg)
    ELSE IF x.k = "inf" /\ y.k = "inf"
    THEN (IF x.neg = y.neg THEN x ELSE F32Nan(nanNeg))
    ELSE IF x.k = "inf" THEN x
    ELSE IF y.k = "inf" THEN y
    ELSE F32FromSigned(F32Signed(x) + F32Signed(y), x.neg /\ y.neg)

f32_sub(x, y, nanNeg) ==
    f32_add(x, f32_neg(y), nanNeg)

f32_mul(x, y, nanNeg) ==
    LET neg == x.neg # y.neg
    IN  IF x.k = "nan" \/ y.k = "nan" THEN F32Nan(nanNeg)
        ELSE IF x.k = "inf" \/ y.k = "inf"
        THEN (IF (x.k = "fin" /\ x.mag = 0) \/ (y.k = "fin" /\ y.mag = 0)
              THEN F32Nan(nanNeg)
              ELSE F32Inf(neg))
        ELSE F32Fin(neg, (x.mag * y.mag) \div 10)

f32_div(x, y, nanNeg) ==
    LET neg == x.neg # y.neg
    IN  IF x.k = "nan" \/ y.k = "nan" THEN F32Nan(nanNeg)
        ELSE IF x.k = "inf"
        THEN (IF y.k = "inf" THEN F32Nan(nanNeg) ELSE F32Inf(neg))
        ELSE IF y.k = "inf" THEN F32Fin(neg, 0)
        ELSE IF y.mag = 0
        THEN (IF x.mag = 0 THEN F32Nan(nanNeg) ELSE F32Inf(neg))
        ELSE F32Fin(neg, (x.mag * 10) \div y.mag)

f32_rem(x, y, nanNeg) ==
    IF x.k = "nan" \/ y.k = "nan" THEN F32Nan(nanNeg)
    ELSE IF x.k = "inf" THEN F32Nan(nanNeg)
    ELSE IF y.k = "inf" THEN x
    ELSE IF y.mag = 0 THEN F32Nan(nanNeg)
    ELSE F32Fin(x.neg, x.mag % y.mag)

\* impl Add for f3: (f32::from(self) + f32::from(rhs)).into()
f3_add(self, rhs, nanNeg) ==
    LET x == f32_from_f3(self, 0)
        y == f32_from_f3(rhs, 0)
    IN  IF x.st # "ok" THEN x
        ELSE IF y.st # "ok" THEN y
        ELSE Ok(f3_from_f32(f32_add(x.val, y.val, nanNeg)))

\* impl Sub for f3
f3_sub(self, rhs, nanNeg) ==
    LET x == f32_from_f3(self, 0)
        y == f32_from_f3(rhs, 0)
    IN  IF x.st # "ok" THEN x
        ELSE IF y.st # "ok" THEN y
        ELSE Ok(f3_from_f32(f32_sub(x.val, y.val, nanNeg)))

\* impl Mul for f3
f3_mul(self, rhs, nanNeg) ==
    LET x == f32_from_f3(self, 0)
        y == f32_from_f3(rhs, 0)
    IN  IF x.st # "ok" THEN x
        ELSE IF y.st # "ok" THEN y
        ELSE Ok(f3_from_f32(f32_mul(x.val, y.val, nanNeg)))

\* impl Div for f3
f3_div(self, rhs, nanNeg) ==
    LET x == f32_from_f3(self, 0)
        y == f32_from_f3(rhs, 0)
    IN  IF x.st # "ok" THEN x
        ELSE IF y.st # "ok" THEN y
        ELSE Ok(f3_from_f32(f32_div(x.val, y.val, nanNeg)))

\* impl Rem for f3
f3_rem(self, rhs, nanNeg) ==
    LET x == f32_from_f3(self, 0)
        y == f32_from_f3(rhs, 0)
    IN  IF x.st # "ok" THEN x
        ELSE IF y.st # "ok" THEN y
        ELSE Ok(f3_from_f32(f32_rem(x.val, y.val, nanNeg)))

\* f3::from(f32::from(val)): From<f3> for f32, then From<f32> for f3 on
\* the float it returned; the result holds that float and the f3 got back
f3_round_trip(val) ==
    LET x == f32_from_f3(val, 0)
    IN  IF x.st # "ok" THEN x
        ELSE Ok([float |-> x.val, back |-> f3_from_f32(x.val)])

(***************************************************************************)
(* u1.rs (and the same text in lib.rs): struct u1(bool), the 1-bit         *)
(* unsigned integer.  An operation returns a u1 or panics.                 *)
(***************************************************************************)
u1 == BOOLEAN

b0 == FALSE

b1 == TRUE

Panic == [st |-> "panic"]

\* Zero::is_zero for u1: !self.0
u1_is_zero(self) == ~self

\* Add for u1 wrapping around on 1 + 1 instead of panicking
u1_add_mut(self, rhs) ==
    IF self = b0 /\ rhs = b0 THEN Ok(b0)
    ELSE IF self = b1 /\ rhs = b1 THEN Ok(b0)
    ELSE Ok(b1)

\* impl Add for u1: (b0, b0) => b0, (b1, b1) => panic, _ => b1
u1_add(self, rhs) ==
    IF self = b0 /\ rhs = b0 THEN Ok(b0)
    ELSE IF self = b1 /\ rhs = b1 THEN Panic
    ELSE Ok(b1)

\* impl Sub for u1: (b0, b0) | (b1, b1) => b0, (b1, b0) => b1,
\* (b0, b1) => panic
u1_sub(self, rhs) ==
    IF (self = b0 /\ rhs = b0) \/ (self = b1 /\ rhs = b1) THEN Ok(b0)
    ELSE IF self = b1 /\ rhs = b0 THEN Ok(b1)
    ELSE Panic

\* impl Mul for u1: if let (b1, b1) = (self, rhs) { b1 } else { b0 }
u1_mul(self, rhs) ==
    IF self = b1 /\ rhs = b1 THEN Ok(b1) ELSE Ok(b0)

\* impl Div for u1: (_, b0) => panic, (b0, b1) => b0, (b1, b1) => b1
u1_div(self, rhs) ==
    IF rhs = b0 THEN Panic
    ELSE IF self = b0 /\ rhs = b1 THEN Ok(b0)
    ELSE Ok(b1)

\* impl Rem for u1: panic if rhs.is_zero(), else b0
u1_rem(self, rhs) ==
    IF u1_is_zero(rhs) THEN Panic ELSE Ok(b0)

(***************************************************************************)
(* The calls.                                                              *)
(***************************************************************************)
Init ==
    /\ op = "none"
    /\ args = <<>>
    /\ ret = <<>>

CallBitNot ==
    \E a \in Bit :
        /\ op = "none"
        /\ op' = "Bit_not"
        /\ args' = <<a>>
        /\ ret' = Bit_not(a)

CallBitAnd ==
    \E a \in Bit, b \in Bit :
        /\ op = "none"
        /\ op' = "Bit_bitand"
        /\ args' = <<a, b>>
        /\ ret' = Bit_bitand(a, b)

CallBitNand ==
    \E a \in Bit, b \in Bit :
        /\ op = "none"
        /\ op' = "Bit_nand"
        /\ args' = <<a, b>>
        /\ ret' = Bit_nand(a, b)

CallBitOr ==
    \E a \in Bit, b \in Bit :
        /\ op = "none"
        /\ op' = "Bit_bitor"
        /\ args' = <<a, b>>
        /\ ret' = Bit_bitor(a, b)

CallBitXor ==
    \E a \in Bit, b \in Bit :
        /\ op = "none"
        /\ op' = "Bit_bitxor"
        /\ args' = <<a, b>>
        /\ ret' = Bit_bitxor(a, b)

CallBitAdd ==
    \E a \in Bit, b \in Bit, c \in Bit :
        /\ op = "none"
        /\ op' = "Bit_add"
        /\ args' = <<a, b, c>>
        /\ ret' = Bit_add(a, b, c)

CallNibbleToI8 ==
    \E n \in Nibble :
        /\ op = "none"
        /\ op' = "i8_from_Nibble"
        /\ args' = <<n>>
        /\ ret' = i8_from_Nibble(n)

CallNibbleNot ==
    \E n \in Nibble :
        /\ op = "none"
        /\ op' = "Nibble_not"
        /\ args' = <<n>>
        /\ ret' = Nibble_not(n)

CallNibbleAdd ==
    \E n \in Nibble, m \in Nibble, c \in Bit :
        /\ op = "none"
        /\ op' = "Nibble_add"
        /\ args' = <<n, m, c>>
        /\ ret' = Nibble_add(n, m, c)

CallNibbleSub ==
    \E n \in Nibble, m \in Nibble :
        /\ op = "none"
        /\ op' = "Nibble_sub"
        /\ args' = <<n, m>>
        /\ ret' = Nibble_sub(n, m)

CallF3FromF32 ==
    \E v \in F32 :
        /\ op = "none"
        /\ op' = "f3_from_f32"
        /\ args' = <<v>>
        /\ ret' = f3_from_f32(v)

CallF3Neg ==
    \E p \in f3 :
        /\ op = "none"
        /\ op' = "f3_neg"
        /\ args' = <<p>>
        /\ ret' = f3_neg(p)

CallF3Eq ==
    \E p \in f3, q \in f3 :
        /\ op = "none"
        /\ op' = "f3_eq"
        /\ args' = <<p, q>>
        /\ ret' = f3_eq(p, q, 0)

CallLibF3Eq ==
    \E p \in f3, q \in f3 :
        /\ op = "none"
        /\ op' = "lib_f3_eq"
        /\ args' = <<p, q>>
        /\ ret' = lib_f3_eq(p, q, 0)

CallF3IsZero ==
    \E p \in f3 :
        /\ op = "none"
        /\ op' = "f3_is_zero"
        /\ args' = <<p>>
        /\ ret' = f3_is_zero(p, 0)

CallF32FromF3 ==
    \E p \in f3 :
        /\ op = "none"
        /\ op' = "f32_from_f3"
        /\ args' = <<p>>
        /\ ret' = f32_from_f3(p, 0)

CallF3Add ==
    \E p \in f3, q \in f3, nanNeg \in BOOLEAN :
        /\ op = "none"
        /\ op' = "f3_add"
        /\ args' = <<p, q>>
        /\ ret' = f3_add(p, q, nanNeg)

CallF3Sub ==
    \E p \in f3, q \in f3, nanNeg \in BOOLEAN :
        /\ op = "none"
        /\ op' = "f3_sub"
        /\ args' = <<p, q>>
        /\ ret' = f3_sub(p, q, nanNeg)

CallF3Mul ==
    \E p \in f3, q \in f3, nanNeg \in BOOLEAN :
        /\ op = "none"
        /\ op' = "f3_mul"
        /\ args' = <<p, q>>
        /\ ret' = f3_mul(p, q, nanNeg)

CallF3Div ==
    \E p \in f3, q \in f3, nanNeg \in BOOLEAN :
        /\ op = "none"
        /\ op' = "f3_div"
        /\ args' = <<p, q>>
        /\ ret' = f3_div(p, q, nanNeg)

CallF3Rem ==
    \E p \in f3, q \in f3, nanNeg \in BOOLEAN :
        /\ op = "none"
        /\ op' = "f3_rem"
        /\ args' = <<p, q>>
        /\ ret' = f3_rem(p, q, nanNeg)

CallF3RoundTrip ==
    \E p \in f3 :
        /\ op = "none"
        /\ op' = "f3_round_trip"
        /\ args' = <<p>>
        /\ ret' = f3_round_trip(p)

CallU1Add ==
    \E x \in u1, y \in u1 :
        /\ op = "none"
        /\ op' = "u1_add"
        /\ args' = <<x, y>>
        /\ ret' = u1_add(x, y)

CallU1Sub ==
    \E x \in u1, y \in u1 :
        /\ op = "none"
        /\ op' = "u1_sub"
        /\ args' = <<x, y>>
        /\ ret' = u1_sub(x, y)

CallU1Mul ==
    \E x \in u1, y \in u1 :
        /\ op = "none"
        /\ op' = "u1_mul"
        /\ args' = <<x, y>>
        /\ ret' = u1_mul(x, y)

CallU1Div ==
    \E x \in u1, y \in u1 :
        /\ op = "none"
        /\ op' = "u1_div"
        /\ args' = <<x, y>>
        /\ ret' = u1_div(x, y)

CallU1Rem ==
    \E x \in u1, y \in u1 :
        /\ op = "none"
        /\ op' = "u1_rem"
        /\ args' = <<x, y>>
        /\ ret' = u1_rem(x, y)

\* the caller takes the returned value; nothing is kept between calls
Return ==
    /\ op # "none"
    /\ op' = "none"
    /\ args' = <<>>
    /\ ret' = <<>>

Next ==
    \/ CallBitNot
    \/ CallBitAnd
    \/ CallBitNand
    \/ CallBitOr
    \/ CallBitXor
    \/ CallBitAdd
    \/ CallNibbleToI8
    \/ CallNibbleNot
    \/ CallNibbleAdd
    \/ CallNibbleSub
    \/ CallF3FromF32
    \/ CallF3Neg
    \/ CallF3Eq
    \/ CallLibF3Eq
    \/ CallF3IsZero
    \/ CallF32FromF3
    \/ CallF3Add
    \/ CallF3Sub
    \/ CallF3Mul
    \/ CallF3Div
    \/ CallF3Rem
    \/ CallF3RoundTrip
    \/ CallU1Add
    \/ CallU1Sub
    \/ CallU1Mul
    \/ CallU1Div
    \/ CallU1Rem
    \/ Return

Spec == Init /\ [][Next]_vars

(***************************************************************************)
(* Arithmetic the claims are stated against.                               *)
(***************************************************************************)
\* v wrapped modulo 16 into [-8, 7]
Wrap4(v) == ((v + 8) % 16) - 8

\* C1: for every (a, b, carry_in), Bit::add returns (sum, carry_out) with
\* sum = a XOR b XOR carry_in, carry_out = majority(a, b, carry_in), that is
\* 2 * carry_out + sum = a + b + carry_in, and both outputs are Bits.
C1_FullAdder ==
    op = "Bit_add" =>
        LET a == args[1]
            b == args[2]
            c == args[3]
        IN  /\ ret[1] \in Bit
            /\ ret[2] \in Bit
            /\ ret[1] = (a + b + c) % 2
            /\ ret[2] = (IF a + b + c >= 2 THEN One ELSE Zero)
            /\ 2 * ret[2] + ret[1] = a + b + c

C1_Witness ==
    /\ op = "Bit_add"
    /\ args = <<One, One, One>>
    /\ ret = <<One, One>>

\* C2: for all four (a, b), a | b is boolean OR, a ^ b is boolean XOR and
\* nand(a, b) is not(a & b), read off the standard truth tables.
C2_Gates ==
    /\ op = "Bit_bitor" =>
          ret = (IF args[1] = One \/ args[2] = One THEN One ELSE Zero)
    /\ op = "Bit_bitxor" =>
          ret = (IF args[1] # args[2] THEN One ELSE Zero)
    /\ op = "Bit_nand" =>
          ret = (IF args[1] = One /\ args[2] = One THEN Zero ELSE One)

C2_Witness ==
    /\ op = "Bit_bitxor"
    /\ args = <<One, Zero>>
    /\ ret = One

\* C3: Nibble::add with carry_in Zero returns the Nibble whose i8 value is
\* x + y wrapped modulo 16 into [-8, 7], the carry rippling from index 3
\* (least significant) up to index 0 (most significant).
C3_AddWraps ==
    (op = "Nibble_add" /\ args[3] = Zero) =>
        LET x == i8_from_Nibble(args[1])
            y == i8_from_Nibble(args[2])
            c3 == Bit_add(args[1][4], args[2][4], Zero)[2]
            c2 == Bit_add(args[1][3], args[2][3], c3)[2]
            c1 == Bit_add(args[1][2], args[2][2], c2)[2]
        IN  /\ i8_from_Nibble(ret[1]) = Wrap4(x + y)
            /\ ret[1][4] = Bit_add(args[1][4], args[2][4], Zero)[1]
            /\ ret[1][3] = Bit_add(args[1][3], args[2][3], c3)[1]
            /\ ret[1][2] = Bit_add(args[1][2], args[2][2], c2)[1]
            /\ ret[1][1] = Bit_add(args[1][1], args[2][1], c1)[1]

\* C4: the carry returned by Nibble::add with carry_in Zero is One exactly
\* when the native sum x + y falls outside [-8, 7].
C4_CarryIsOverflow ==
    (op = "Nibble_add" /\ args[3] = Zero) =>
        LET x == i8_from_Nibble(args[1])
            y == i8_from_Nibble(args[2])
        IN  (ret[2] = One) <=> (x + y < -8 \/ x + y > 7)

\* C5: Nibble(x) - Nibble(y) is add(x, not(y), One) and the resulting
\* Nibble has the value x - y wrapped modulo 16 into [-8, 7].
C5_SubWraps ==
    op = "Nibble_sub" =>
        LET x == i8_from_Nibble(args[1])
            y == i8_from_Nibble(args[2])
        IN  /\ ret = Nibble_add(args[1], Nibble_not(args[2]), One)
            /\ i8_from_Nibble(ret[1]) = Wrap4(x - y)

\* C6: the Nibble -> i8 conversion returns -8*b0 + 4*b1 + 2*b2 + b3 and is
\* a bijection from the 16 bit patterns onto [-8, 7]: the value lies in the
\* range, no other pattern has it, and every n of the range has a pattern.
C6_I8Bijection ==
    op = "i8_from_Nibble" =>
        LET n == args[1]
        IN  /\ ret = (-8) * n[1] + 4 * n[2] + 2 * n[3] + n[4]
            /\ ret \in -8..7
            /\ \A m \in Nibble : i8_from_Nibble(m) = ret => m = n
            /\ \A v \in -8..7 :
                  Cardinality({m \in Nibble : i8_from_Nibble(m) = v}) = 1

C6_Witness ==
    /\ op = "i8_from_Nibble"
    /\ args = << <<One, Zero, One, One>> >>
    /\ ret = -5

\* the bucket the ordered rules give a float that is not a zero
C7_Bucket(v) ==
    IF v.k = "inf" \/ (v.k = "fin" /\ v.mag > 10)
    THEN (IF v.neg THEN f3_NEG_INFINITY ELSE f3_INFINITY)
    ELSE IF v.k = "fin" /\ v.mag = 10
    THEN (IF v.neg THEN f3_NEG_ONE ELSE f3_ONE)
    ELSE (IF v.neg THEN f3_NEG_NAN ELSE f3_NAN)

\* C7: a float that is not a zero converts to exactly one bucket: an
\* infinity or a finite value beyond 1 gives the infinity of its sign,
\* exactly 1 and -1 give POS_ONE and NEG_ONE, and every other non-zero
\* value of (-1, 1) and every NaN gives the NaN of its sign bit.
C7_FromF32NonZero ==
    (op = "f3_from_f32" /\ ~(args[1].k = "fin" /\ args[1].mag = 0)) =>
        /\ ret = C7_Bucket(args[1])
        /\ (args[1] = F32Fin(FALSE, 50) => ret = f3_new(Zero, One, Zero))
        /\ (args[1] = F32Fin(TRUE, 50) => ret = f3_new(One, One, Zero))
        /\ (args[1] = F32Fin(FALSE, 3) => ret = f3_new(Zero, One, One))
        /\ (args[1] = F32Fin(TRUE, 3) => ret = f3_new(One, One, One))

C7_Witness ==
    /\ op = "f3_from_f32"
    /\ args = <<F32Fin(TRUE, 3)>>
    /\ ret = f3_NEG_NAN

\* C8: a native zero keeps its sign: +0.0 converts to POS_ZERO (0, 0, 0)
\* and -0.0 to NEG_ZERO (1, 0, 0).
C8_SignedZero ==
    (op = "f3_from_f32" /\ args[1].k = "fin" /\ args[1].mag = 0) =>
        ret = f3_new(IF args[1].neg THEN One ELSE Zero, Zero, Zero)

\* the six constants that are not NaN, and the two zeros
C9_NonNan == {p \in f3 : ~(p.exponent = One /\ p.mantissa = One)}

C9_IsZero(p) == p.exponent = Zero /\ p.mantissa = Zero

\* C9: for all 64 pairs (p, q), p == q returns true when p and q are the
\* same non-NaN constant or two zeros of either sign, and returns false in
\* every other case, the NaNs being unequal to themselves and each other.
C9_Equality ==
    op \in {"f3_eq", "lib_f3_eq"} =>
        LET p == args[1]
            q == args[2]
        IN  /\ ret.st = "ok"
            /\ ret.val = \/ (p \in C9_NonNan /\ p = q)
                         \/ (C9_IsZero(p) /\ C9_IsZero(q))

\* C10: every f3 operation is total: the equality test, is_zero, the
\* conversion to f32 and add, sub, mul, div, rem each return a value for
\* every operand, with no failure and no unbounded recursion.
C10_Total ==
    op \in {"f3_eq", "lib_f3_eq", "f3_is_zero", "f32_from_f3",
            "f3_add", "f3_sub", "f3_mul", "f3_div", "f3_rem"} =>
        ret.st = "ok"

\* C11: converting an f3 constant to a native float and back returns the
\* same constant bit for bit, for the six non-NaN constants and for the two
\* NaNs, POS_NAN passing through a positive-signed NaN and NEG_NAN through
\* a negative-signed NaN.
C11_RoundTrip ==
    op = "f3_round_trip" =>
        /\ ret.st = "ok"
        /\ ret.val.back = args[1]
        /\ (args[1] = f3_NAN => ret.val.float = F32Nan(FALSE))
        /\ (args[1] = f3_NEG_NAN => ret.val.float = F32Nan(TRUE))

\* the number a u1 stands for
C12_Value(x) == IF x THEN 1 ELSE 0

\* the exact result of the operation on the numbers a and b, or -1 where
\* it is no 1-bit unsigned number (overflow, underflow, division by zero)
C12_Exact(o, a, b) ==
    IF o = "u1_add" THEN (IF a + b > 1 THEN -1 ELSE a + b)
    ELSE IF o = "u1_sub" THEN (IF a - b < 0 THEN -1 ELSE a - b)
    ELSE IF o = "u1_mul" THEN a * b
    ELSE IF b = 0 THEN -1
    ELSE IF o = "u1_div" THEN a \div b
    ELSE a % b

\* C12: u1 never returns a wrong answer: 1 + 1, 0 - 1, x / 0 and x % 0
\* panic, and every other add, sub, mul, div, rem returns the exact
\* mathematical result as a u1.
C12_U1Exact ==
    op \in {"u1_add", "u1_sub", "u1_mul", "u1_div", "u1_rem"} =>
        LET e == C12_Exact(op, C12_Value(args[1]), C12_Value(args[2]))
        IN  IF e = -1 THEN ret.st = "panic"
            ELSE /\ ret.st = "ok"
                 /\ ret.val \in u1
                 /\ C12_Value(ret.val) = e

C12_Witness ==
    /\ op = "u1_add"
    /\ args = <<b1, b1>>
    /\ ret.st = "panic"

====
